---- MODULE Spec2Model ----
(***************************************************************************)
(* The reactivity engine of src/7.立即执行的watch和回调执行时机/index.js    *)
(* (track / trigger / cleanup / effect / flushJob / computed / watch) as a *)
(* small-step machine.  One JavaScript call stack (stack), one microtask   *)
(* queue (mq); a step executes the next statement of the frame on top of   *)
(* the call stack.  The user functions handed to effect(), computed() and  *)
(* watch() are inputs; they are drawn from the catalogue Prog below.       *)
(***************************************************************************)
EXTENDS Integers, Sequences, FiniteSets, TLC

\* ------------------------------------------------------------------ bounds
MaxVal     == 1   \* property values range over 0..MaxVal
MaxEffects == 3   \* effect() is called at most this many times
MaxDepth   == 6   \* JavaScript call-stack depth explored
MaxOps     == 2   \* reads/writes the host performs in one synchronous block
MaxThrows  == 1   \* entries an exception may leave behind on effectStack

\* --------------------------------------------------------------- constants
UNDEF == 0 - 1    \* JavaScript undefined
OBJ   == 0 - 2    \* the proxy object itself (what traverse returns)

Keys    == {"foo", "bar"}          \* properties of data
CV      == "value"                 \* the key computed() tracks on its own obj
DepKeys == Keys \cup {CV}          \* one dependency Set per (target, key)
Vals    == 0 .. MaxVal

\* ----------------------------------------------------------- user functions
\* Statements of a user function.
R(k)     == [op |-> "read",   k |-> k,     k2 |-> k,  p |-> "-"]
B(k, k2) == [op |-> "branch", k |-> k,     k2 |-> k2, p |-> "-"]
I(k)     == [op |-> "inc",    k |-> k,     k2 |-> k,  p |-> "-"]
E(p)     == [op |-> "effect", k |-> "foo", k2 |-> "foo", p |-> p]
RC       == [op |-> "readc",  k |-> "foo", k2 |-> "foo", p |-> "-"]
T        == [op |-> "throw",  k |-> "foo", k2 |-> "foo", p |-> "-"]
Z(k)     == [op |-> "reset",  k |-> k,     k2 |-> k,  p |-> "-"]
G(k)     == [op |-> "guard",  k |-> k,     k2 |-> k,  p |-> "-"]

\* body: the statements; res: what the function returns ("undef", the "sum" of
\* the values it read, or the object "obj" it traversed).  The function "inc"
\* is the cyclic counter () => { obj.foo = (obj.foo + 1) % (MaxVal + 1) }: like
\* obj.foo++ it reads foo and then writes it, and its values stay in Vals.
Prog ==
  [ read     |-> [body |-> << R("foo") >>,                         res |-> "undef"],
    read2    |-> [body |-> << R("foo"), R("foo") >>,               res |-> "undef"],
    readBar  |-> [body |-> << R("bar") >>,                         res |-> "undef"],
    branch   |-> [body |-> << B("foo", "bar") >>,                  res |-> "undef"],
    inc      |-> [body |-> << I("foo") >>,                         res |-> "undef"],
    nested   |-> [body |-> << R("foo"), E("readBar"), R("foo") >>, res |-> "undef"],
    readC    |-> [body |-> << RC >>,                               res |-> "undef"],
    readFooC |-> [body |-> << R("foo"), RC >>,                     res |-> "undef"],
    sum      |-> [body |-> << R("foo"), R("bar") >>,               res |-> "sum"],
    getFoo   |-> [body |-> << R("foo") >>,                         res |-> "sum"],
    traverse |-> [body |-> << R("foo"), R("bar") >>,               res |-> "obj"],
    thrower  |-> [body |-> << R("foo"), T >>,                      res |-> "undef"],
    incBar   |-> [body |-> << I("bar") >>,                         res |-> "undef"],
    resetFoo |-> [body |-> << Z("foo") >>,                         res |-> "undef"],
    guarded  |-> [body |-> << G("foo"), I("bar"), R("bar") >>,     res |-> "undef"],
    bounce   |-> [body |-> << R("bar"), Z("foo") >>,               res |-> "undef"],
    nestInc  |-> [body |-> << R("foo"), E("inc") >>,               res |-> "undef"],
    noop     |-> [body |-> << >>,                                  res |-> "undef"] ]

\* --------------------------------------------------------------- variables
VARIABLES
  data,          \* the raw object behind the proxy
  bucket,        \* (target, key) -> Set of effects, in insertion order
  effects,       \* every effectFn created: its fn, options and deps
  activeEffect,  \* 0 is undefined
  effectStack,
  jobQueue,      \* Set of effects, in insertion order
  isFlushing,
  comp,          \* the closure of computed(): dirty, _value, effectFn
  wat,           \* the closure of watch(): options, oldValue, newValue, effectFn
  mq,            \* the host's microtask queue (FIFO)
  stack,         \* the JavaScript call stack, top last
  ret,           \* the value returned by the call that returned last
  phase,         \* "script": host code runs; "micro": microtasks are drained
  ops,           \* reads/writes performed by the host in this block
  log,           \* observer: the events since the block began or effect(),
                 \*   computed() or watch() was last called by the host
  obs            \* observer: what each function read, what was scheduled

vars == << data, bucket, effects, activeEffect, effectStack, jobQueue,
           isFlushing, comp, wat, mq, stack, ret, phase, ops, log, obs >>

\* ----------------------------------------------------------------- helpers
Range(s) == { s[i] : i \in DOMAIN s }

Last(s) == s[Len(s)]

Front(s) == SubSeq(s, 1, Len(s) - 1)

RECURSIVE Without(_, _)
Without(s, x) ==
  IF s = << >> THEN << >>
  ELSE IF Head(s) = x THEN Without(Tail(s), x)
       ELSE << Head(s) >> \o Without(Tail(s), x)

Count(s, x) == Cardinality({ i \in DOMAIN s : s[i] = x })

\* A frame of the call stack.  t: what runs ("fn": the function of effect e,
\* "cb": a watch callback, "trigger", "flush", "cget": get value(), "job",
\* "init": watch's oldValue = effectFn()); p: the user function; pc: its next
\* statement; acc: the sum of what it read; k: the key of a trigger; rem: the
\* effects trigger has still to call.  Observers: latest (no later run of e
\* has started), want (who read k in their latest run, at trigger's entry),
\* ran and sch (whom this trigger called, and whose scheduler it called); the
\* k of a "fn" frame tells whether e was due when the run began.
Frame(t, e, p, k) ==
  [t |-> t, e |-> e, p |-> p, pc |-> 1, acc |-> 0, k |-> k, rem |-> << >>,
   latest |-> TRUE, want |-> {}, ran |-> << >>, sch |-> << >>]

Top == Last(stack)

Idle == stack = << >>

Ev(ev, e, k, v, w) == [ev |-> ev, e |-> e, k |-> k, v |-> v, w |-> w]

\* The log is an observer: it records events and decides nothing.  The event
\* of a write by host code carries, in w, who had read the written key (deps)
\* and who had read the computed value (subs) in their latest run; the event
\* of effect() called by host code, and that of a read by host code, carry the
\* bucket as the call found it.
Note(l, ev) == Append(l, ev)

\* -------------------------------------------------------------- observers
\* last[e]: the keys the function of e read in its latest run; ever[e]: in any
\* run; due: the effects that have not run since a key of their last[e] was
\* written; asked: the effects whose batching scheduler was called since the
\* last flush; stale: a key the computed getter read was written since it last
\* ran (or it never ran).
obsNew(o) == [o EXCEPT !.last = Append(@, {}), !.ever = Append(@, {})]

obsRun(o, e) ==
  [o EXCEPT !.last[e] = {}, !.due = @ \ {e},
            !.stale = IF e = comp.eff THEN FALSE ELSE @]

obsRead(o, f, k) ==
  IF f.t # "fn" THEN o
  ELSE [o EXCEPT !.last[f.e] = IF f.latest THEN @ \cup {k} ELSE @,
                 !.ever[f.e] = @ \cup {k}]

HasRead(o, k) == { e \in DOMAIN o.last : k \in o.last[e] }

obsWrite(o, k) ==
  [o EXCEPT !.due = @ \cup HasRead(o, k),
            !.stale = IF comp.made /\ k \in o.last[comp.eff] THEN TRUE ELSE @]

obsAsk(o, e) == [o EXCEPT !.asked = @ \cup {e}]

\* ------------------------------------------------------- track and trigger
\* An array in place of the Set: push keeps duplicates.
SetAddAsArray(s, x) == Append(s, x)

\* Set.prototype.add: a JavaScript Set keeps insertion order and ignores an
\* element it already holds.
SetAdd(s, x) == IF x \in Range(s) THEN s ELSE Append(s, x)

\* track(target, key), with ae the activeEffect: deps.add(activeEffect)
trackBucket(bk, ae, key) ==
  IF ae = 0 THEN bk ELSE [bk EXCEPT ![key] = SetAdd(@, ae)]

\* track(target, key): activeEffect.deps.push(deps)
trackDeps(ef, ae, key) ==
  IF ae = 0 THEN ef ELSE [ef EXCEPT ![ae].deps = Append(@, key)]

\* trigger without the effectFn !== activeEffect test.
effectsToRunAll(bk, ae, key) == bk[key]

\* trigger(target, key): the snapshot effectsToRun, taken before any effect runs
effectsToRun(bk, ae, key) == SelectSeq(bk[key], LAMBDA e : e # ae)

\* cleanup that forgets the deps.delete(effectFn) loop.
cleanupBucketNoDelete(bk, ef, e) == bk

\* cleanup(effectFn): deps.delete(effectFn) for every Set in effectFn.deps
cleanupBucket(bk, ef, e) ==
  [k \in DepKeys |-> IF k \in Range(ef[e].deps) THEN Without(bk[k], e) ELSE bk[k]]

\* cleanup(effectFn): effectFn.deps.length = 0
cleanupDeps(ef, e) == [ef EXCEPT ![e].deps = << >>]

\* effect(fn, options): the new effectFn, with its options and empty deps
NewEffect(p, sched, lazy) ==
  [fn |-> p, scheduler |-> sched, lazy |-> lazy, deps |-> << >>]

\* The frames of earlier runs of e that have not returned.
Older(stk, e) ==
  [i \in DOMAIN stk |->
     IF stk[i].t = "fn" /\ stk[i].e = e THEN [stk[i] EXCEPT !.latest = FALSE]
     ELSE stk[i]]

\* The call effectFn(): cleanup, activeEffect = effectFn, push, then fn() runs
\* in a new frame on top of the caller's stack stk.  ef, o and l are the
\* effects, observer and log as the caller leaves them.
effectFn(stk, ef, o, l, e) ==
  /\ bucket' = cleanupBucket(bucket, ef, e)
  /\ effects' = cleanupDeps(ef, e)
  /\ activeEffect' = e
  /\ effectStack' = Append(effectStack, e)
  /\ stack' = Append(Older(stk, e),
                     Frame("fn", e, ef[e].fn, IF e \in o.due THEN "due" ELSE "undue"))
  /\ log' = Note(l, Ev("run", e, "-", 0, 0))
  /\ obs' = obsRun(o, e)

\* trigger(target, key): a frame that walks the snapshot effectsToRun.
triggerFrame(bk, ae, key, o) ==
  [Frame("trigger", ae, "-", key) EXCEPT !.rem = effectsToRun(bk, ae, key),
                                         !.want = HasRead(o, key)]

\* The caller's frame once its current statement is done.
Advance(stk) == [stk EXCEPT ![Len(stk)].pc = @ + 1]

CanPush == Len(stack) < MaxDepth

\* -------------------------------------------------------------------- Init
Init ==
  /\ data \in [Keys -> Vals]
  /\ bucket = [k \in DepKeys |-> << >>]
  /\ effects = << >>
  /\ activeEffect = 0
  /\ effectStack = << >>
  /\ jobQueue = << >>
  /\ isFlushing = FALSE
  /\ comp = [made |-> FALSE, dirty |-> TRUE, value |-> UNDEF, eff |-> 0]
  /\ wat = [made |-> FALSE, src |-> "obj", immediate |-> FALSE, flush |-> "sync",
            cb |-> "noop", eff |-> 0, oldValue |-> UNDEF, newValue |-> UNDEF]
  /\ mq = << >>
  /\ stack = << >>
  /\ ret = UNDEF
  /\ phase = "script"
  /\ ops = 0
  /\ log = << >>
  /\ obs = [last |-> << >>, ever |-> << >>, due |-> {}, asked |-> {}, stale |-> TRUE]

HostReady == Idle /\ phase = "script"

\* ------------------------------------------------------------- host script
\* effect(fn, options) called by the host: fn and options are inputs.
HostEffect(p, sched, lazy) ==
  /\ HostReady
  /\ Len(effects) < MaxEffects
  /\ LET ef == Append(effects, NewEffect(p, sched, lazy))
         e  == Len(ef)
         l  == << Ev("effect", e, "-", 0, bucket) >>
     IN  /\ ops' = 0
         /\ ret' = UNDEF
         /\ IF lazy
            THEN /\ effects' = ef
                 /\ log' = l
                 /\ obs' = obsNew(obs)
                 /\ UNCHANGED << bucket, activeEffect, effectStack, stack >>
            ELSE effectFn(stack, ef, obsNew(obs), l, e)
  /\ UNCHANGED << data, jobQueue, isFlushing, comp, wat, mq, phase >>

\* obj[k] = v from host code: the set trap writes, then calls trigger.
HostWrite(k, v) ==
  /\ HostReady
  /\ ops < MaxOps
  /\ data' = [data EXCEPT ![k] = v]
  /\ stack' = << triggerFrame(bucket, activeEffect, k, obs) >>
  /\ ops' = ops + 1
  /\ log' = Note(log, Ev("set", 0, k, v, [subs |-> HasRead(obs, CV),
                                           deps |-> HasRead(obs, k)]))
  /\ obs' = obsWrite(obs, k)
  /\ UNCHANGED << bucket, effects, activeEffect, effectStack, jobQueue,
                  isFlushing, comp, wat, mq, ret, phase >>

\* obj[k] read by host code, outside any effect function: the get trap calls
\* track with whatever activeEffect is.
HostRead(k) ==
  /\ HostReady
  /\ ops < MaxOps
  /\ activeEffect # 0 => Len(effects[activeEffect].deps) <= MaxOps
  /\ bucket' = trackBucket(bucket, activeEffect, k)
  /\ effects' = trackDeps(effects, activeEffect, k)
  /\ ret' = data[k]
  /\ ops' = ops + 1
  /\ log' = Note(log, Ev("hread", activeEffect, k, data[k], bucket))
  /\ UNCHANGED << data, activeEffect, effectStack, jobQueue, isFlushing, comp,
                  wat, mq, stack, phase, obs >>

\* The handles host code holds: what its own effect() calls returned.
Handles == { e \in DOMAIN effects : effects[e].scheduler \in {"none", "batch"} }

\* effectFn() called by host code on the handle effect() returned.
HostCall(e) ==
  /\ HostReady
  /\ ops < MaxOps
  /\ e \in Handles
  /\ ops' = ops + 1
  /\ effectFn(stack, effects, obs, Note(log, Ev("call", e, "-", 0, 0)), e)
  /\ UNCHANGED << data, jobQueue, isFlushing, comp, wat, mq, ret, phase >>

\* ------------------------------------------------- statements of a user fn
InFn == ~Idle /\ Top.t \in {"fn", "cb"} /\ Top.pc <= Len(Prog[Top.p].body)

Stmt == Prog[Top.p].body[Top.pc]

\* obj[k] read inside a user function: the get trap calls track.
StepRead ==
  /\ InFn /\ Stmt.op = "read"
  /\ bucket' = trackBucket(bucket, activeEffect, Stmt.k)
  /\ effects' = trackDeps(effects, activeEffect, Stmt.k)
  /\ stack' = [stack EXCEPT ![Len(stack)].pc = @ + 1,
                            ![Len(stack)].acc = @ + data[Stmt.k]]
  /\ log' = Note(log, Ev("read", Top.e, Stmt.k, data[Stmt.k], 0))
  /\ obs' = obsRead(obs, Top, Stmt.k)
  /\ UNCHANGED << data, activeEffect, effectStack, jobQueue, isFlushing,
                  comp, wat, mq, ret, phase, ops >>

\* obj[k] ? obj[k2] : 'not'
StepBranch ==
  /\ InFn /\ Stmt.op = "branch"
  /\ LET b1 == trackBucket(bucket, activeEffect, Stmt.k)
         d1 == trackDeps(effects, activeEffect, Stmt.k)
         l1 == Note(log, Ev("read", Top.e, Stmt.k, data[Stmt.k], 0))
         o1 == obsRead(obs, Top, Stmt.k)
     IN  IF data[Stmt.k] # 0
         THEN /\ bucket' = trackBucket(b1, activeEffect, Stmt.k2)
              /\ effects' = trackDeps(d1, activeEffect, Stmt.k2)
              /\ log' = Note(l1, Ev("read", Top.e, Stmt.k2, data[Stmt.k2], 0))
              /\ obs' = obsRead(o1, Top, Stmt.k2)
         ELSE /\ bucket' = b1
              /\ effects' = d1
              /\ log' = l1
              /\ obs' = o1
  /\ stack' = Advance(stack)
  /\ UNCHANGED << data, activeEffect, effectStack, jobQueue, isFlushing,
                  comp, wat, mq, ret, phase, ops >>

\* The value the counter function writes after reading v.
Succ(v) == (v + 1) % (MaxVal + 1)

\* obj[k] = Succ(obj[k]): the get trap (track), then the set trap (write, trigger).
StepInc ==
  /\ InFn /\ Stmt.op = "inc"
  /\ CanPush
  /\ LET b1 == trackBucket(bucket, activeEffect, Stmt.k)
         o1 == obsRead(obs, Top, Stmt.k)
     IN  /\ bucket' = b1
         /\ effects' = trackDeps(effects, activeEffect, Stmt.k)
         /\ data' = [data EXCEPT ![Stmt.k] = Succ(@)]
         /\ stack' = Append(Advance(stack), triggerFrame(b1, activeEffect, Stmt.k, o1))
         /\ log' = Note(Note(log, Ev("read", Top.e, Stmt.k, data[Stmt.k], 0)),
                        Ev("write", Top.e, Stmt.k, Succ(data[Stmt.k]), 0))
         /\ obs' = obsWrite(o1, Stmt.k)
  /\ UNCHANGED << activeEffect, effectStack, jobQueue, isFlushing,
                  comp, wat, mq, ret, phase, ops >>

\* if (obj[k] !== 0) obj[k] = 0: the get trap, and the set trap if taken.
StepReset ==
  /\ InFn /\ Stmt.op = "reset"
  /\ LET b1 == trackBucket(bucket, activeEffect, Stmt.k)
         o1 == obsRead(obs, Top, Stmt.k)
         l1 == Note(log, Ev("read", Top.e, Stmt.k, data[Stmt.k], 0))
     IN  /\ bucket' = b1
         /\ effects' = trackDeps(effects, activeEffect, Stmt.k)
         /\ IF data[Stmt.k] # 0
            THEN /\ CanPush
                 /\ data' = [data EXCEPT ![Stmt.k] = 0]
                 /\ stack' = Append(Advance(stack),
                                    triggerFrame(b1, activeEffect, Stmt.k, o1))
                 /\ log' = Note(l1, Ev("write", Top.e, Stmt.k, 0, 0))
                 /\ obs' = obsWrite(o1, Stmt.k)
            ELSE /\ data' = data
                 /\ stack' = Advance(stack)
                 /\ log' = l1
                 /\ obs' = o1
  /\ UNCHANGED << activeEffect, effectStack, jobQueue, isFlushing,
                  comp, wat, mq, ret, phase, ops >>

\* if (!obj[k]) return: the get trap, then the rest of the function or none.
StepGuard ==
  /\ InFn /\ Stmt.op = "guard"
  /\ bucket' = trackBucket(bucket, activeEffect, Stmt.k)
  /\ effects' = trackDeps(effects, activeEffect, Stmt.k)
  /\ stack' = [stack EXCEPT ![Len(stack)].pc =
                 IF data[Stmt.k] = 0 THEN Len(Prog[Top.p].body) + 1 ELSE @ + 1]
  /\ log' = Note(log, Ev("read", Top.e, Stmt.k, data[Stmt.k], 0))
  /\ obs' = obsRead(obs, Top, Stmt.k)
  /\ UNCHANGED << data, activeEffect, effectStack, jobQueue, isFlushing,
                  comp, wat, mq, ret, phase, ops >>

\* effect(fn) called inside a user function: a new effectFn is created and run.
StepEffect ==
  /\ InFn /\ Stmt.op = "effect"
  /\ CanPush
  /\ Len(effects) < MaxEffects
  /\ LET ef == Append(effects, NewEffect(Stmt.p, "none", FALSE))
     IN  effectFn(Advance(stack), ef, obsNew(obs), log, Len(ef))
  /\ UNCHANGED << data, jobQueue, isFlushing, comp, wat, mq, ret, phase, ops >>

\* throw inside a user function.  Nothing in the engine catches: the exception
\* leaves every frame on the call stack, and effectFn's statements after
\* fn() (effectStack.pop(), activeEffect = ...) are not executed.  A rejected
\* then-callback still settles its promise, which queues the finally one.
StepThrow ==
  /\ InFn /\ Stmt.op = "throw"
  /\ Len(effectStack) <= MaxThrows
  /\ stack' = << >>
  /\ ret' = UNDEF
  /\ mq' = IF stack[1].t = "flush" THEN Append(mq, "finally") ELSE mq
  /\ log' = Note(log, Ev("throw", Top.e, "-", 0, 0))
  /\ UNCHANGED << data, bucket, effects, activeEffect, effectStack, jobQueue,
                  isFlushing, comp, wat, phase, ops, obs >>

\* effectFn without its return res.
ResultDropped(f) == UNDEF

\* What fn() returned.
Result(f) ==
  CASE Prog[f.p].res = "sum" -> f.acc
    [] Prog[f.p].res = "obj" -> OBJ
    [] OTHER -> UNDEF

\* effectFn without the effect stack: activeEffect is left as fn() left it.
restoreActiveNot(es) == activeEffect

\* activeEffect = effectStack[effectStack.length - 1], es being the popped stack
restoreActive(es) == IF es = << >> THEN 0 ELSE Last(es)

\* fn() has returned: effectStack.pop(), activeEffect = the new top, return res.
FnReturn ==
  /\ ~Idle /\ Top.t = "fn" /\ Top.pc > Len(Prog[Top.p].body)
  /\ effectStack' = Front(effectStack)
  /\ activeEffect' = restoreActive(Front(effectStack))
  /\ ret' = Result(Top)
  /\ stack' = Front(stack)
  /\ log' = Note(log, Ev("ret", Top.e, "-", Result(Top), 0))
  /\ UNCHANGED << data, bucket, effects, jobQueue, isFlushing, comp, wat, mq,
                  phase, ops, obs >>

\* ------------------------------------------------------------------ trigger
InTrigger == ~Idle /\ Top.t = "trigger"

Target == Head(Top.rem)

\* The trigger frame once it has called Target, or Target's scheduler.
Ran(stk) == [stk EXCEPT ![Len(stk)].rem = Tail(@),
                        ![Len(stk)].ran = Append(@, Head(stk[Len(stk)].rem))]

Scheduled(stk) == [stk EXCEPT ![Len(stk)].rem = Tail(@),
                              ![Len(stk)].sch = Append(@, Head(stk[Len(stk)].rem))]

\* A trigger that calls every effect itself, scheduler or not.
callsDirectlyAlways(ef) == TRUE

\* if (effectFn.options.scheduler) ... else effectFn()
callsDirectly(ef) == ef.scheduler = "none"

\* effectsToRun.forEach: an effect without scheduler is called directly.
TriggerRun ==
  /\ InTrigger /\ Top.rem # << >>
  /\ callsDirectly(effects[Target])
  /\ CanPush
  /\ effectFn(Ran(stack), effects, obs, log, Target)
  /\ UNCHANGED << data, jobQueue, isFlushing, comp, wat, mq, ret, phase, ops >>

\* flushJob without the isFlushing test.
flushJobAlways(q, flushing) == Append(q, "flush")

\* flushJob(): if (isFlushing) return; else one microtask is queued.
flushJob(q, flushing) == IF flushing THEN q ELSE Append(q, "flush")

\* effectsToRun.forEach: scheduler(fn) { jobQueue.add(fn); flushJob() }
TriggerBatch ==
  /\ InTrigger /\ Top.rem # << >>
  /\ effects[Target].scheduler = "batch"
  /\ jobQueue' = SetAdd(jobQueue, Target)
  /\ mq' = flushJob(mq, isFlushing)
  /\ isFlushing' = TRUE
  /\ stack' = Scheduled(stack)
  /\ log' = Note(log, Ev("sched", Target, "-", 0, 0))
  /\ obs' = obsAsk(obs, Target)
  /\ UNCHANGED << data, bucket, effects, activeEffect, effectStack, comp, wat,
                  ret, phase, ops >>

\* trigger returns once the snapshot is exhausted.
TriggerReturn ==
  /\ InTrigger /\ Top.rem = << >>
  /\ stack' = Front(stack)
  /\ ret' = UNDEF
  /\ UNCHANGED << data, bucket, effects, activeEffect, effectStack, jobQueue,
                  isFlushing, comp, wat, mq, phase, ops, log, obs >>

\* --------------------------------------------------------------- microtasks
\* The synchronous block of host code ends; the host drains its microtasks.
EndScript ==
  /\ HostReady
  /\ phase' = "micro"
  /\ UNCHANGED << data, bucket, effects, activeEffect, effectStack, jobQueue,
                  isFlushing, comp, wat, mq, stack, ret, ops, log, obs >>

MicroReady == Idle /\ phase = "micro" /\ mq # << >>

\* p.then(() => { jobQueue.forEach((job) => job()) })
FlushStart ==
  /\ MicroReady /\ Head(mq) = "flush"
  /\ mq' = Tail(mq)
  /\ stack' = << Frame("flush", 0, "-", "-") >>
  /\ log' = Note(log, Ev("flush", 0, "-", 0, 0))
  /\ UNCHANGED << data, bucket, effects, activeEffect, effectStack, jobQueue,
                  isFlushing, comp, wat, ret, phase, ops, obs >>

\* jobQueue.forEach((job) => job()): the Set is walked in insertion order.
FlushJob ==
  /\ ~Idle /\ Top.t = "flush" /\ Top.pc <= Len(jobQueue)
  /\ CanPush
  /\ effectFn(Advance(stack), effects, obs, log, jobQueue[Top.pc])
  /\ UNCHANGED << data, jobQueue, isFlushing, comp, wat, mq, ret, phase, ops >>

\* The then-callback returns; its promise settles and queues the finally one.
FlushEnd ==
  /\ ~Idle /\ Top.t = "flush" /\ Top.pc > Len(jobQueue)
  /\ stack' = Front(stack)
  /\ mq' = Append(mq, "finally")
  /\ ret' = UNDEF
  /\ obs' = [obs EXCEPT !.asked = {}]
  /\ UNCHANGED << data, bucket, effects, activeEffect, effectStack, jobQueue,
                  isFlushing, comp, wat, phase, ops, log >>

\* .finally(() => { isFlushing = false })
FlushFinally ==
  /\ MicroReady /\ Head(mq) = "finally"
  /\ mq' = Tail(mq)
  /\ isFlushing' = FALSE
  /\ UNCHANGED << data, bucket, effects, activeEffect, effectStack, jobQueue,
                  comp, wat, stack, ret, phase, ops, log, obs >>

\* The microtask queue is empty: the host starts its next synchronous block.
NextTask ==
  /\ Idle /\ phase = "micro" /\ mq = << >>
  /\ phase' = "script"
  /\ ops' = 0
  /\ log' = << >>
  /\ UNCHANGED << data, bucket, effects, activeEffect, effectStack, jobQueue,
                  isFlushing, comp, wat, mq, stack, ret, obs >>

\* ----------------------------------------------------------------- computed
\* computed(getter): a lazy effect whose scheduler marks the cache dirty.
HostComputed(getter) ==
  /\ HostReady
  /\ ~comp.made
  /\ Len(effects) < MaxEffects
  /\ effects' = Append(effects, NewEffect(getter, "computed", TRUE))
  /\ comp' = [made |-> TRUE, dirty |-> TRUE, value |-> UNDEF, eff |-> Len(effects) + 1]
  /\ ops' = 0
  /\ log' = << Ev("computed", Len(effects) + 1, "-", 0, 0) >>
  /\ obs' = obsNew(obs)
  /\ ret' = UNDEF
  /\ UNCHANGED << data, bucket, activeEffect, effectStack, jobQueue, isFlushing,
                  wat, mq, stack, phase >>

\* if (dirty): does get value() call effectFn()?
mustEvaluate(c) == c.dirty

\* The scheduler's dirty = true
invalidate(c) == [c EXCEPT !.dirty = TRUE]

\* What the observer knew when the read began.
Staleness == IF obs.stale THEN "stale" ELSE "fresh"

\* get value(), called with caller stack stk.  Dirty: effectFn() is called and
\* the getter waits for its result.  Clean: track(obj, 'value'); return _value.
getValue(stk) ==
  IF mustEvaluate(comp)
  THEN /\ effectFn(Append(stk, Frame("cget", 0, "-", Staleness)), effects, obs, log,
                   comp.eff)
       /\ UNCHANGED << comp, ret >>
  ELSE /\ bucket' = trackBucket(bucket, activeEffect, CV)
       /\ effects' = trackDeps(effects, activeEffect, CV)
       /\ ret' = comp.value
       /\ stack' = stk
       /\ log' = Note(log, Ev("value", activeEffect, Staleness, comp.value, 0))
       /\ obs' = IF stk = << >> THEN obs ELSE obsRead(obs, Last(stk), CV)
       /\ UNCHANGED << comp, activeEffect, effectStack >>

\* sumRes.value read by host code
HostValue ==
  /\ HostReady
  /\ comp.made
  /\ ops < MaxOps
  /\ ops' = ops + 1
  /\ getValue(stack)
  /\ UNCHANGED << data, jobQueue, isFlushing, wat, mq, phase >>

\* sumRes.value read inside a user function
StepValue ==
  /\ InFn /\ Stmt.op = "readc"
  /\ comp.made
  /\ Len(stack) + 1 < MaxDepth
  /\ getValue(Advance(stack))
  /\ UNCHANGED << data, jobQueue, isFlushing, wat, mq, phase, ops >>

\* get value(), after effectFn() returned: _value = res; dirty = false;
\* track(obj, 'value'); return _value
ValueReturn ==
  /\ ~Idle /\ Top.t = "cget"
  /\ comp' = [comp EXCEPT !.value = ret, !.dirty = FALSE]
  /\ bucket' = trackBucket(bucket, activeEffect, CV)
  /\ effects' = trackDeps(effects, activeEffect, CV)
  /\ stack' = Front(stack)
  /\ log' = Note(log, Ev("value", activeEffect, Top.k, ret, 1))
  /\ obs' = IF Len(stack) = 1 THEN obs ELSE obsRead(obs, stack[Len(stack) - 1], CV)
  /\ UNCHANGED << data, activeEffect, effectStack, jobQueue, isFlushing, wat,
                  mq, ret, phase, ops >>

\* The scheduler of computed's effect: if (!dirty) { dirty = true; trigger(obj, 'value') }
TriggerComputed ==
  /\ InTrigger /\ Top.rem # << >>
  /\ effects[Target].scheduler = "computed"
  /\ CanPush
  /\ IF ~comp.dirty
     THEN /\ comp' = invalidate(comp)
          /\ stack' = Append(Scheduled(stack), triggerFrame(bucket, activeEffect, CV, obs))
     ELSE /\ comp' = comp
          /\ stack' = Scheduled(stack)
  /\ log' = Note(log, Ev("sched", Target, "-", 0, 0))
  /\ UNCHANGED << data, bucket, effects, activeEffect, effectStack, jobQueue,
                  isFlushing, wat, mq, ret, phase, ops, obs >>

\* -------------------------------------------------------------------- watch
\* The getter watch builds: the user's getter, or () => traverse(source).
WatchGetter(src) == IF src = "obj" THEN "traverse" ELSE "getFoo"

\* A scheduler that always defers job.
isPostAlways(w) == TRUE

\* if (options.flush === 'post')
isPost(w) == w.flush = "post"

\* A watch that ignores options.immediate.
isImmediateNever(im) == FALSE

\* if (options.immediate)
isImmediate(im) == im

\* watch(source, cb, options): effect(() => getter(), { lazy, scheduler }), then
\* job() if options.immediate, else oldValue = effectFn().
HostWatchCb(src, immediate, flush, cb) ==
  /\ HostReady
  /\ ~wat.made
  /\ Len(effects) < MaxEffects
  /\ wat' = [made |-> TRUE, src |-> src, immediate |-> immediate, flush |-> flush,
             cb |-> cb, eff |-> Len(effects) + 1,
             oldValue |-> UNDEF, newValue |-> UNDEF]
  /\ ops' = 0
  /\ ret' = UNDEF
  /\ LET ef == Append(effects, NewEffect(WatchGetter(src), "watch", TRUE))
         fr == IF isImmediate(immediate) THEN Frame("job", 0, "-", "-") ELSE Frame("init", 0, "-", "-")
     IN  effectFn(<< fr >>, ef, obsNew(obs), << Ev("watch", Len(ef), "-", 0, 0) >>, Len(ef))
  /\ UNCHANGED << data, jobQueue, isFlushing, comp, mq, phase >>

\* watch with a callback that does nothing but be called.
HostWatch(src, immediate, flush) == HostWatchCb(src, immediate, flush, "noop")

\* oldValue = effectFn(), after effectFn() returned
InitReturn ==
  /\ ~Idle /\ Top.t = "init"
  /\ wat' = [wat EXCEPT !.oldValue = ret]
  /\ stack' = Front(stack)
  /\ UNCHANGED << data, bucket, effects, activeEffect, effectStack, jobQueue,
                  isFlushing, comp, mq, ret, phase, ops, log, obs >>

\* Is the job on top of the stack running inside the cb of another job?
Nesting == IF \E i \in 1 .. Len(stack) - 1 : stack[i].t = "job" THEN "nested" ELSE "top"

\* job(), after effectFn() returned: newValue = res; cb(newValue, oldValue)
JobCallback ==
  /\ ~Idle /\ Top.t = "job" /\ Top.pc = 1
  /\ CanPush
  /\ wat' = [wat EXCEPT !.newValue = ret]
  /\ stack' = Append(Advance(stack), Frame("cb", 0, wat.cb, "-"))
  /\ log' = Note(log, Ev("cb", wat.eff, Nesting, ret, wat.oldValue))
  /\ UNCHANGED << data, bucket, effects, activeEffect, effectStack, jobQueue,
                  isFlushing, comp, mq, ret, phase, ops, obs >>

\* cb returns
CallbackReturn ==
  /\ ~Idle /\ Top.t = "cb" /\ Top.pc > Len(Prog[Top.p].body)
  /\ stack' = Front(stack)
  /\ ret' = UNDEF
  /\ UNCHANGED << data, bucket, effects, activeEffect, effectStack, jobQueue,
                  isFlushing, comp, wat, mq, phase, ops, log, obs >>

\* A job that forgets oldValue = newValue.
nextOldValueKept(w) == w.oldValue

\* oldValue = newValue
nextOldValue(w) == w.newValue

\* job(), after cb returned: oldValue = newValue
JobReturn ==
  /\ ~Idle /\ Top.t = "job" /\ Top.pc = 2
  /\ wat' = [wat EXCEPT !.oldValue = nextOldValue(wat)]
  /\ stack' = Front(stack)
  /\ ret' = UNDEF
  /\ UNCHANGED << data, bucket, effects, activeEffect, effectStack, jobQueue,
                  isFlushing, comp, mq, phase, ops, log, obs >>

\* The scheduler of watch's effect, flush: 'post': Promise.resolve().then(job)
TriggerWatchPost ==
  /\ InTrigger /\ Top.rem # << >>
  /\ effects[Target].scheduler = "watch"
  /\ isPost(wat)
  /\ mq' = Append(mq, "job")
  /\ stack' = Scheduled(stack)
  /\ log' = Note(log, Ev("sched", Target, "-", 0, 0))
  /\ UNCHANGED << data, bucket, effects, activeEffect, effectStack, jobQueue,
                  isFlushing, comp, wat, ret, phase, ops, obs >>

\* The scheduler of watch's effect, any other flush: job()
TriggerWatchSync ==
  /\ InTrigger /\ Top.rem # << >>
  /\ effects[Target].scheduler = "watch"
  /\ ~isPost(wat)
  /\ Len(stack) + 1 < MaxDepth
  /\ effectFn(Append(Scheduled(stack), Frame("job", 0, "-", "-")), effects, obs,
              Note(log, Ev("sched", Target, "-", 0, 0)), wat.eff)
  /\ UNCHANGED << data, jobQueue, isFlushing, comp, wat, mq, ret, phase, ops >>

\* The microtask queued by flush: 'post' runs job.
JobStart ==
  /\ MicroReady /\ Head(mq) = "job"
  /\ mq' = Tail(mq)
  /\ effectFn(<< Frame("job", 0, "-", "-") >>, effects, obs,
              Note(log, Ev("job", wat.eff, "-", 0, 0)), wat.eff)
  /\ UNCHANGED << data, jobQueue, isFlushing, comp, wat, ret, phase, ops >>

\* ------------------------------------------------------------ specifications
\* What every program does: reads, effect runs, trigger, the host's blocks.
Core ==
  \/ StepRead \/ FnReturn \/ TriggerRun \/ TriggerReturn \/ EndScript \/ NextTask

\* The scheduler { jobQueue.add(fn); flushJob() } and the flush it queues.
Batch ==
  \/ TriggerBatch \/ FlushStart \/ FlushJob \/ FlushEnd \/ FlushFinally

Computed ==
  \/ HostValue \/ StepValue \/ ValueReturn \/ TriggerComputed

Watch ==
  \/ InitReturn \/ JobCallback \/ CallbackReturn \/ JobReturn
  \/ TriggerWatchPost \/ TriggerWatchSync \/ JobStart

\* Effects without scheduler, over every kind of user function.
EffectFns == {"read2", "branch", "inc", "nested"}

Next ==
  \/ \E p \in EffectFns : HostEffect(p, "none", FALSE)
  \/ \E k \in Keys, v \in Vals : HostWrite(k, v)
  \/ StepBranch \/ StepInc \/ StepEffect
  \/ Core

Spec == Init /\ [][Next]_vars

\* Effects with and without the batching scheduler.
SchedFns == {"read2", "readBar"}

NextSched ==
  \/ \E p \in SchedFns, s \in {"none", "batch"} : HostEffect(p, s, FALSE)
  \/ \E k \in Keys, v \in Vals : HostWrite(k, v)
  \/ Core
  \/ Batch

SpecSched == Init /\ [][NextSched]_vars

\* A computed value, and effects that read it, the data, or both.
CompFns == {"readC", "read", "readFooC"}

NextComputed ==
  \/ HostComputed("sum")
  \/ \E p \in CompFns : HostEffect(p, "none", FALSE)
  \/ \E k \in Keys, v \in Vals : HostWrite(k, v)
  \/ Core
  \/ Computed

SpecComputed == Init /\ [][NextComputed]_vars

\* A watch, over a container or a getter, with every option, and an effect.
NextWatch ==
  \/ \E src \in {"obj", "getter"}, im \in BOOLEAN, fl \in {"sync", "post"} :
        HostWatch(src, im, fl)
  \/ HostEffect("read", "none", FALSE)
  \/ \E k \in Keys, v \in Vals : HostWrite(k, v)
  \/ Core
  \/ Watch

SpecWatch == Init /\ [][NextWatch]_vars

\* Effect functions that throw, and reads by host code afterwards.
ThrowFns == {"readBar", "thrower"}

NextThrow ==
  \/ \E p \in ThrowFns : HostEffect(p, "none", FALSE)
  \/ \E k \in Keys, v \in Vals : HostWrite(k, v)
  \/ \E k \in Keys : HostRead(k)
  \/ StepThrow
  \/ Core

SpecThrow == Init /\ [][NextThrow]_vars

\* Lazy and eager effects, and handles called by host code.
LazyFns == {"sum"}

NextLazy ==
  \/ \E p \in LazyFns, lazy \in BOOLEAN : HostEffect(p, "none", lazy)
  \/ \E e \in 1 .. MaxEffects : HostCall(e)
  \/ \E k \in Keys, v \in Vals : HostWrite(k, v)
  \/ Core

SpecLazy == Init /\ [][NextLazy]_vars

\* A watch whose callback writes bar, next to effects that read bar, batched
\* or not.
NextPost ==
  \/ \E fl \in {"sync", "post"} : HostWatchCb("getter", FALSE, fl, "incBar")
  \/ \E sc \in {"none", "batch"} : HostEffect("readBar", sc, FALSE)
  \/ \E k \in Keys, v \in Vals : HostWrite(k, v)
  \/ StepInc
  \/ Core
  \/ Batch
  \/ Watch

SpecPost == Init /\ [][NextPost]_vars

\* A watch whose callback writes the property its getter reads.
NextRewatch ==
  \/ \E im \in BOOLEAN, fl \in {"sync", "post"} :
        HostWatchCb("getter", im, fl, "resetFoo")
  \/ HostEffect("read", "none", FALSE)
  \/ \E k \in Keys, v \in Vals : HostWrite(k, v)
  \/ StepReset
  \/ Core
  \/ Watch

SpecRewatch == Init /\ [][NextRewatch]_vars

\* Everything host code can do between effect runs: register, call a handle,
\* read, write, read a computed value, register a watch, let a flush run.
NextHost ==
  \/ HostEffect("read", "batch", TRUE)
  \/ \E e \in 1 .. MaxEffects : HostCall(e)
  \/ \E k \in Keys : HostRead(k)
  \/ \E v \in Vals : HostWrite("foo", v)
  \/ HostComputed("sum") \/ HostValue \/ ValueReturn \/ TriggerComputed
  \/ HostWatch("getter", FALSE, "sync")
  \/ InitReturn \/ JobCallback \/ CallbackReturn \/ JobReturn \/ TriggerWatchSync
  \/ StepRead \/ FnReturn \/ TriggerReturn \/ EndScript \/ NextTask
  \/ Batch

SpecHost == Init /\ [][NextHost]_vars

\* Two effects that write what the other reads, so that one is re-run while
\* its earlier run has not returned, and every run returns.
ReentryFns == {"guarded", "bounce"}

NextReentry ==
  \/ \E p \in ReentryFns : HostEffect(p, "none", FALSE)
  \/ \E k \in Keys, v \in Vals : HostWrite(k, v)
  \/ StepGuard \/ StepInc \/ StepReset
  \/ Core

SpecReentry == Init /\ [][NextReentry]_vars

\* Effects without scheduler that read and write foo: obj.foo++ at the top
\* level, and obj.foo++ in an effect registered by an effect that read foo.
CycleFns == {"inc", "nestInc"}

NextCycle ==
  \/ \E p \in CycleFns : HostEffect(p, "none", FALSE)
  \/ \E v \in Vals : HostWrite("foo", v)
  \/ StepInc \/ StepEffect
  \/ Core

SpecCycle == Init /\ [][NextCycle]_vars

\* ------------------------------------------------------------------- claims
Called(f, e) == Count(f.ran, e) + Count(f.sch, e)

\* C1: an effect E that read k in its latest run, and is not the active effect
\* when k is written, is called exactly once by that write's trigger: its
\* function if it has no scheduler, else its scheduler and not its function;
\* the call has been made (and has returned) when trigger returns.
C1_OneReactionPerWrite ==
  \A i \in DOMAIN stack :
    stack[i].t = "trigger" =>
      \A e \in stack[i].want \ {stack[i].e} :
        /\ Called(stack[i], e) <= 1
        /\ stack[i].rem = << >> => Called(stack[i], e) = 1
        /\ effects[e].scheduler = "none" => Count(stack[i].sch, e) = 0
        /\ effects[e].scheduler # "none" => Count(stack[i].ran, e) = 0
        /\ (i = Len(stack) /\ stack[i].rem = << >>) => e \notin Range(effectStack)

\* A write to foo has just called, once each, an effect that read foo twice and
\* has no scheduler, and the scheduler of one that has.
C1_Witness ==
  /\ InTrigger /\ Top.rem = << >> /\ Top.k = "foo"
  /\ \E e1, e2 \in Top.want :
       /\ effects[e1].fn = "read2" /\ effects[e1].scheduler = "none"
       /\ effects[e1].deps = << "foo", "foo" >>
       /\ Top.ran = << e1 >>
       /\ effects[e2].scheduler = "batch"
       /\ Top.sch = << e2 >>

\* C2: an effect whose latest run did not read k is neither run nor scheduled
\* by the trigger of a write to k.
C2_NoStaleDependency ==
  \A i \in DOMAIN stack :
    stack[i].t = "trigger" =>
      \A e \in DOMAIN effects :
        e \notin stack[i].want => e \notin Range(stack[i].ran) \cup Range(stack[i].sch)

\* bar has been written and its trigger is done; an effect that read bar in an
\* earlier run, but not in its latest, was left alone.
C2_Witness ==
  /\ InTrigger /\ Top.rem = << >> /\ Top.k = "bar"
  /\ \E e \in DOMAIN effects :
       /\ effects[e].fn = "branch"
       /\ "bar" \in obs.ever[e]
       /\ e \notin Top.want
       /\ e \notin Range(Top.ran)

\* The log since the host's last call: the events that call caused.
HostEvs == {"effect", "computed", "watch", "set", "call", "hread"}

IsOp(i) == log[i].ev \in HostEvs

LastOp ==
  IF \E i \in DOMAIN log : IsOp(i)
  THEN CHOOSE i \in DOMAIN log : IsOp(i) /\ \A j \in DOMAIN log : IsOp(j) => j <= i
  ELSE 0

RunsAfter(i, e) ==
  Cardinality({ j \in DOMAIN log : j > i /\ log[j].ev = "run" /\ log[j].e = e })

SetsOf(k) == { i \in DOMAIN log : log[i].ev = "set" /\ log[i].k = k }

Min(S) == CHOOSE x \in S : \A y \in S : x <= y

Max(S) == CHOOSE x \in S : \A y \in S : y <= x

\* C3: an effect is re-run by trigger or by a flush only if a property it read
\* in its latest run was written since; and a flush runs only the effects
\* whose scheduler was called since the previous flush.
C3_RerunOnlyWhenDue ==
  \A i \in DOMAIN stack :
    (i > 1 /\ stack[i].t = "fn" /\ stack[i - 1].t \in {"trigger", "flush"}) =>
      /\ stack[i].k = "due"
      /\ stack[i - 1].t = "flush" => stack[i].e \in obs.asked

Incs == { e \in DOMAIN effects : effects[e].fn = "inc" }

C5_NestedAttribution ==
  \A e \in DOMAIN effects :
    effects[e].fn \in {"nested", "readBar"} =>
      /\ \A k \in DepKeys : e \in Range(bucket[k]) <=> k \in obs.last[e]
      /\ Range(effects[e].deps) = obs.last[e]
      /\ effects[e].fn = "nested" => e \notin Range(bucket["bar"])
      /\ effects[e].fn = "readBar" => e \notin Range(bucket["foo"])

\* A has read foo, registered and run B, and read foo again: A.deps holds the
\* Set of foo twice, B.deps the Set of bar.
C5_Witness ==
  /\ ~Idle /\ Top.t = "fn" /\ Top.p = "nested" /\ Top.pc = 4
  /\ effects[Top.e].deps = << "foo", "foo" >>
  /\ \E b \in DOMAIN effects :
       /\ effects[b].fn = "readBar"
       /\ effects[b].deps = << "bar" >>
       /\ b \in Range(bucket["bar"])
       /\ Top.e \notin Range(bucket["bar"])
       /\ Top.e \in Range(bucket["foo"])

Batched == { e \in DOMAIN effects : effects[e].scheduler = "batch" }

Drained == Idle /\ phase = "micro" /\ mq = << >>

\* C6: an effect with the batching scheduler that reads foo is not run while
\* the block of host code that writes foo is running; when foo was written
\* twice in the block, its scheduler was called twice and, once the microtasks
\* have run, it has been run exactly once, reading the second value written.
C6_BatchedWrites ==
  \A e \in Batched :
    (effects[e].fn = "read2" /\ SetsOf("foo") # {}) =>
      /\ phase = "script" => RunsAfter(Min(SetsOf("foo")), e) = 0
      /\ \A j \in DOMAIN log :
           (j > Min(SetsOf("foo")) /\ log[j].ev = "run" /\ log[j].e = e) =>
              \E m \in DOMAIN log : m < j /\ log[m].ev = "flush"
      /\ (Cardinality(SetsOf("foo")) = 2 /\ Drained) =>
           /\ Cardinality({ j \in DOMAIN log : log[j].ev = "sched" /\ log[j].e = e }) = 2
           /\ RunsAfter(Min(SetsOf("foo")), e) = 1
           /\ \A j \in DOMAIN log :
                (log[j].ev = "read" /\ log[j].e = e /\ j > Min(SetsOf("foo"))) =>
                   log[j].v = log[Max(SetsOf("foo"))].v

\* foo was written twice, with different values, in one block; the microtasks
\* have run and the effect was run once.
C6_Witness ==
  /\ Drained
  /\ Cardinality(SetsOf("foo")) = 2
  /\ log[Min(SetsOf("foo"))].v # log[Max(SetsOf("foo"))].v
  /\ \E e \in Batched :
       /\ effects[e].fn = "read2"
       /\ RunsAfter(Max(SetsOf("foo")), e) = 1
       /\ \E j \in DOMAIN log : log[j].ev = "read" /\ log[j].e = e
                                  /\ log[j].v = log[Max(SetsOf("foo"))].v

\* A read of sumRes.value has just returned.
ValueRead == log # << >> /\ Last(log).ev = "value"

\* C7: every read of .value returns the getter's result on the current data,
\* obj.foo + obj.bar.
C7_ValueIsCurrent ==
  ValueRead => Last(log).v = data["foo"] + data["bar"]

\* An effect re-run by a write of foo has just read .value: the cached sum was
\* returned, and it is not the sum of the current values.
C7_Witness ==
  /\ ValueRead /\ Last(log).e # 0
  /\ effects[Last(log).e].fn = "readFooC"
  /\ Last(log).v # data["foo"] + data["bar"]
  /\ LastOp > 0 /\ log[LastOp].ev = "set" /\ log[LastOp].k = "foo"

\* C8: a read of .value calls the getter exactly when it is the first read or a
\* property the getter read in its last evaluation was written since (once
\* then, and not otherwise), and it leaves dirty false.
C8_EvaluatesWhenStale ==
  ValueRead =>
    /\ Last(log).w = 1 <=> Last(log).k = "stale"
    /\ ~comp.dirty

\* The first read of .value after a write of a getter property did not call
\* the getter, and dirty is false.
C8_Witness ==
  /\ ValueRead
  /\ Last(log).k = "stale" /\ Last(log).w = 0
  /\ ~comp.dirty

\* The host's last call was a write of a property the getter had read.
WroteGetterKey ==
  /\ comp.made /\ LastOp > 0 /\ log[LastOp].ev = "set"
  /\ comp.eff \in log[LastOp].w.deps

ValuesAfter(i, e) ==
  { j \in DOMAIN log : j > i /\ log[j].ev = "value" /\ log[j].e = e }

\* C9 as stated: every effect whose latest run read .value is run exactly once
\* by the write and reads the recomputed value; an effect that never read
\* .value is not run.
C9_AsStated ==
  (Idle /\ WroteGetterKey) =>
    /\ \A e \in log[LastOp].w.subs :
         /\ RunsAfter(LastOp, e) = 1
         /\ \A j \in ValuesAfter(LastOp, e) : log[j].v = data["foo"] + data["bar"]
    /\ \A e \in DOMAIN effects \ {comp.eff} :
         CV \notin obs.ever[e] => RunsAfter(LastOp, e) = 0

\* What does hold of the readers of .value: an effect whose latest run read
\* .value, and not the written property itself, is run exactly once by the
\* write and its read of .value returns the recomputed value; an effect that
\* never read .value, and whose latest run did not read the written property,
\* is not run.
ReadersOfValueOnly ==
  (Idle /\ WroteGetterKey) =>
    /\ \A e \in log[LastOp].w.subs \ log[LastOp].w.deps :
         /\ RunsAfter(LastOp, e) = 1
         /\ ValuesAfter(LastOp, e) # {}
         /\ \A j \in ValuesAfter(LastOp, e) : log[j].v = data["foo"] + data["bar"]
    /\ \A e \in DOMAIN effects \ ({comp.eff} \cup log[LastOp].w.deps) :
         CV \notin obs.ever[e] => RunsAfter(LastOp, e) = 0

\* foo was written by host code; an effect that reads foo and then .value was
\* run twice by that one write, and its first read returned the cached value.
C9_Witness ==
  /\ Idle /\ WroteGetterKey /\ phase = "script"
  /\ \E e \in log[LastOp].w.subs :
       /\ effects[e].fn = "readFooC"
       /\ RunsAfter(LastOp, e) = 2
       /\ \E j \in ValuesAfter(LastOp, e) : log[j].v # data["foo"] + data["bar"]

Callbacks(a, b) == { j \in DOMAIN log : a < j /\ j < b /\ log[j].ev = "cb" }

AllSets == { i \in DOMAIN log : log[i].ev = "set" }

NextSet(i) ==
  IF \E j \in AllSets : j > i THEN Min({ j \in AllSets : j > i }) ELSE Len(log) + 1

\* C10: with watch(obj, cb) and no flush: 'post', each write of a property of
\* obj by host code calls cb exactly once before the write returns, so cb calls
\* and writes alternate in the log.
C10_WatchSyncPerWrite ==
  (wat.made /\ wat.src = "obj" /\ wat.flush # "post") =>
    \A i \in AllSets :
      /\ Cardinality(Callbacks(i, NextSet(i))) <= 1
      /\ (NextSet(i) <= Len(log) \/ Idle) => Cardinality(Callbacks(i, NextSet(i))) = 1

\* obj.foo and then obj.bar were written in one block: cb was called twice, once
\* after each write, and the block is still running.
C10_Witness ==
  /\ wat.made /\ wat.src = "obj" /\ wat.flush # "post"
  /\ Idle /\ phase = "script"
  /\ \E i, j \in AllSets :
       /\ AllSets = {i, j} /\ i < j
       /\ log[i].k = "foo" /\ log[j].k = "bar"
       /\ Cardinality(Callbacks(i, j)) = 1
       /\ Cardinality(Callbacks(j, Len(log) + 1)) = 1

PostWatch == wat.made /\ wat.src = "obj" /\ wat.flush = "post"

\* The block wrote foo and then bar, and nothing else.
WroteFooBar ==
  \E i, j \in AllSets :
    /\ AllSets = {i, j} /\ i < j
    /\ log[i].k = "foo" /\ log[j].k = "bar"

\* C11: with watch(obj, cb, {flush: 'post'}), cb is never called while the
\* block that writes is running, and the two writes obj.foo, obj.bar of one
\* block call cb exactly once in all, in a microtask after both.
C11_PostBatchedOnce ==
  PostWatch =>
    /\ phase = "script" => \A i \in AllSets : Callbacks(i, Len(log) + 1) = {}
    /\ (WroteFooBar /\ Drained) =>
         Cardinality(Callbacks(Min(AllSets), Len(log) + 1)) = 1

\* foo and bar were written in one block, the microtasks have run, and cb was
\* called twice, both times after the second write.
C11_Witness ==
  /\ PostWatch /\ WroteFooBar /\ Drained
  /\ Cardinality(Callbacks(Max(AllSets), Len(log) + 1)) = 2

\* The host's last call was watch(): everything in the log is its doing.
InWatchCall == wat.made /\ LastOp > 0 /\ log[LastOp].ev = "watch"

\* What the getter of watch returns on the current data.
GetterNow == IF wat.src = "obj" THEN OBJ ELSE data["foo"]

\* C12: watch(source, cb, {immediate: true}) calls cb exactly once during the
\* watch call, with oldValue undefined and newValue the getter's result;
\* without immediate the watch call does not call cb, evaluates the getter
\* once and keeps its result as oldValue.
C12_ImmediateCallsOnce ==
  InWatchCall =>
    /\ RunsAfter(LastOp, wat.eff) <= 1
    /\ \A j \in Callbacks(LastOp, Len(log) + 1) :
         log[j].w = UNDEF /\ log[j].v = GetterNow
    /\ wat.immediate =>
         /\ Cardinality(Callbacks(LastOp, Len(log) + 1)) <= 1
         /\ Idle => Cardinality(Callbacks(LastOp, Len(log) + 1)) = 1
    /\ ~wat.immediate =>
         /\ Callbacks(LastOp, Len(log) + 1) = {}
         /\ Idle => (RunsAfter(LastOp, wat.eff) = 1 /\ wat.oldValue = GetterNow)

\* watch(() => obj.foo, cb, {immediate: true}) has returned with obj.foo = 1:
\* cb was called once, with (1, undefined), and no write was made.
C12_Witness ==
  /\ InWatchCall /\ Idle /\ phase = "script"
  /\ wat.immediate /\ wat.src = "getter" /\ data["foo"] = 1
  /\ \E j \in DOMAIN log :
       /\ Callbacks(LastOp, Len(log) + 1) = {j}
       /\ log[j].v = 1 /\ log[j].w = UNDEF
  /\ wat.oldValue = 1

HostReads == { i \in DOMAIN log : log[i].ev = "hread" }

\* C13: when an effect's function throws, the exception reaches the caller with
\* the effect popped from effectStack and activeEffect reset (undefined, the
\* stack being empty), and a read by host code afterwards subscribes no effect.
C13_RestoredAfterThrow ==
  /\ (Idle /\ log # << >> /\ Last(log).ev = "throw") =>
        (effectStack = << >> /\ activeEffect = 0)
  /\ \A i \in HostReads : log[i].e = 0

\* An effect whose function reads foo and throws was run; host code then read
\* bar, and the effect is now in the Set of bar, which its function never read.
C13_Witness ==
  /\ Idle /\ log # << >> /\ Last(log).ev = "hread" /\ Last(log).k = "bar"
  /\ \E e \in DOMAIN effects :
       /\ effects[e].fn = "thrower"
       /\ activeEffect = e
       /\ e \in Range(bucket["bar"])
       /\ "bar" \notin obs.ever[e]

\* The host's last call was a call of the handle of e.
ManuallyCalled(e) == LastOp > 0 /\ log[LastOp].ev = "call" /\ log[LastOp].e = e

\* What the function of e returns on the current data.
ReturnOf(e) ==
  IF effects[e].fn = "sum" THEN data["foo"] + data["bar"] ELSE UNDEF

Subscribed(e) ==
  /\ \A k \in DepKeys : e \in Range(bucket[k]) <=> k \in obs.last[e]
  /\ Range(effects[e].deps) = obs.last[e]

\* C14: effect(fn, {lazy: true}) does not run fn and leaves every dependency
\* Set as it was; effect(fn) runs fn exactly once; both return the handle, and
\* a call of the handle runs fn once, returns what fn returned and subscribes
\* the effect to the properties fn read.
C14_LazyAndManualRun ==
  LET op == LastOp
      ev == IF op > 0 THEN log[op].ev ELSE "-"
  IN  ev \in {"effect", "call"} =>
        LET e    == log[op].e
            runs == RunsAfter(op, e)
        IN  /\ e \in Handles
            /\ (ev = "effect" /\ effects[e].lazy) =>
                  /\ Idle
                  /\ runs = 0
                  /\ effects[e].deps = << >>
                  /\ bucket = log[op].w
            /\ (ev = "effect" /\ ~effects[e].lazy) =>
                  /\ runs = 1
                  /\ Idle => Subscribed(e)
            /\ ev = "call" =>
                  /\ runs = 1
                  /\ Idle => (ret = ReturnOf(e) /\ Subscribed(e))

\* A lazy effect on () => obj.foo + obj.bar was registered without running; its
\* handle was then called, returned the sum 2, and the effect is in the Sets of
\* foo and bar.
C14_Witness ==
  /\ Idle
  /\ \E e \in DOMAIN effects :
       /\ effects[e].lazy /\ effects[e].fn = "sum"
       /\ ManuallyCalled(e)
       /\ LastOp = 1
       /\ ret = 2 /\ data["foo"] = 1 /\ data["bar"] = 1
       /\ e \in Range(bucket["foo"]) /\ e \in Range(bucket["bar"])
       /\ effects[e].deps = << "foo", "bar" >>

\* C15: an effect whose batching scheduler was called is run by a flush in a
\* later microtask, no further write being needed: when the microtask queue
\* has drained, no effect is left asked for and not run.
C15_NoLostTrigger == Drained => obs.asked = {}

\* The microtasks have drained and isFlushing is false again; the callback of
\* a flush: 'post' watch wrote bar after the flush had run, the scheduler of a
\* batched effect reading bar was called, and the effect was not run since.
C15_Witness ==
  /\ Drained /\ ~isFlushing
  /\ wat.made /\ wat.flush = "post"
  /\ \E e \in obs.asked :
       /\ effects[e].scheduler = "batch"
       /\ e \in obs.due
       /\ \E f, w, c \in DOMAIN log :
            /\ f < w /\ w < c
            /\ log[f].ev = "flush"
            /\ log[w].ev = "write" /\ log[w].k = "bar"
            /\ log[c].ev = "sched" /\ log[c].e = e
            /\ RunsAfter(c, e) = 0

\* In the log of the current tick: the calls of e's scheduler, and the runs of
\* e made by the flush.
Scheds(e) == { i \in DOMAIN log : log[i].ev = "sched" /\ log[i].e = e }

FlushRuns(e) ==
  { j \in DOMAIN log :
      /\ log[j].ev = "run" /\ log[j].e = e
      /\ \E f \in DOMAIN log : f < j /\ log[f].ev = "flush" }

\* The log holds the whole tick: nothing was registered since the block began.
WholeTick == \A i \in DOMAIN log : log[i].ev \notin {"effect", "computed", "watch"}

\* C16: two effects whose schedulers were called in this tick are run by the
\* flush in the order of those calls.
C16_FlushInTickOrder ==
  \A e1, e2 \in Batched :
    (/\ WholeTick
     /\ Scheds(e1) # {} /\ Scheds(e2) # {}
     /\ FlushRuns(e1) # {} /\ FlushRuns(e2) # {}
     /\ Min(Scheds(e2)) < Min(Scheds(e1))) =>
       Min(FlushRuns(e2)) < Min(FlushRuns(e1))

\* Effect 1 registered before effect 2, both enqueued in an earlier tick; in
\* this tick the scheduler of 2 was called before that of 1, and the flush ran
\* 1 before 2.
C16_Witness ==
  /\ Drained /\ WholeTick
  /\ \E e1, e2 \in Batched :
       /\ jobQueue = << e1, e2 >>
       /\ Scheds(e1) # {} /\ Scheds(e2) # {}
       /\ Max(Scheds(e2)) < Min(Scheds(e1))
       /\ FlushRuns(e1) # {} /\ FlushRuns(e2) # {}
       /\ Max(FlushRuns(e1)) < Min(FlushRuns(e2))

\* The getter of the computed value is running at stack position j.
GetterAt(j) == stack[j].t = "fn" /\ stack[j].e = comp.eff

\* The computed's scheduler is executing at position i: its trigger(obj,
\* 'value') has not returned.
SchedulerAt(i) == stack[i].t = "trigger" /\ stack[i].k = CV

\* C17 as stated: the getter is never executed between the entry and the
\* return of the computed's scheduler.
C17_AsStated ==
  comp.made =>
    \A i, j \in DOMAIN stack : (i < j /\ SchedulerAt(i)) => ~GetterAt(j)

\* C17: the scheduler of a computed value never calls the getter itself: the
\* getter is only ever called by get value(), on a read of .value that finds
\* dirty true, and the scheduler leaves the cached value alone.
C17_GetterOnlyOnRead ==
  comp.made =>
    /\ \A j \in DOMAIN stack : GetterAt(j) => (j > 1 /\ stack[j - 1].t = "cget")
    /\ \A i \in DOMAIN stack :
         (SchedulerAt(i) /\ i = Len(stack) /\ Top.ran = << >> /\ Top.sch = << >>) =>
            comp.dirty

\* A write of foo called the scheduler, whose trigger ran an effect subscribed
\* to .value; that effect's read of .value is evaluating the getter while the
\* scheduler has not returned.
C17_Witness ==
  /\ comp.made /\ Len(stack) >= 4
  /\ GetterAt(Len(stack))
  /\ stack[Len(stack) - 1].t = "cget"
  /\ stack[Len(stack) - 2].t = "fn" /\ stack[Len(stack) - 2].p = "readC"
  /\ SchedulerAt(Len(stack) - 3)

AllCallbacks == Callbacks(0, Len(log) + 1)

\* The results of the watch getter in the log, in order.
GetterResults == { i \in DOMAIN log : log[i].ev = "ret" /\ log[i].e = wat.eff }

\* The log starts with watch(): its first getter result is the one captured
\* (or, with immediate, passed to cb) at registration.
WatchInLog == log # << >> /\ log[1].ev = "watch"

\* oldValue as the claim has it for the cb call at j: the newValue of the
\* previous call, else what registration captured.
ExpectedOld(j) ==
  IF Callbacks(0, j) # {} THEN log[Max(Callbacks(0, j))].v
  ELSE IF wat.immediate THEN UNDEF
  ELSE log[Min(GetterResults)].v

\* C18 as stated: for watch(() => obj.foo, cb), each call of cb gets as
\* newValue the getter's result on the data as the job finds it, and as
\* oldValue the newValue of the previous call, or before any call what
\* registration captured.
C18_AsStated ==
  (wat.made /\ wat.src = "getter") =>
    /\ (log # << >> /\ Last(log).ev = "cb") => Last(log).v = data["foo"]
    /\ \A j \in AllCallbacks :
         (WatchInLog \/ Callbacks(0, j) # {}) => log[j].w = ExpectedOld(j)

\* C18: as stated for every call of cb made by a job that does not run inside
\* another call of cb; a job that does (cb wrote the getter's property, the
\* flush being synchronous) passes the oldValue its enclosing call received.
\* Between jobs the closure's oldValue is the newValue last passed.
C18_OldAndNewValues ==
  (wat.made /\ wat.src = "getter") =>
    /\ (log # << >> /\ Last(log).ev = "cb") => Last(log).v = data["foo"]
    /\ \A j \in AllCallbacks :
         /\ (log[j].k = "top" /\ (WatchInLog \/ Callbacks(0, j) # {})) =>
               log[j].w = ExpectedOld(j)
         /\ log[j].k = "nested" =>
               (Callbacks(0, j) # {} /\ log[j].w = log[Max(Callbacks(0, j))].w)
    /\ (Idle /\ AllCallbacks # {}) => wat.oldValue = log[Max(AllCallbacks)].v
    /\ (Idle /\ AllCallbacks = {} /\ WatchInLog /\ ~wat.immediate) =>
         wat.oldValue = log[Min(GetterResults)].v
    /\ wat.flush = "post" => \A j \in AllCallbacks : log[j].k = "top"

\* watch(() => obj.foo, cb, {flush: 'post'}) was registered with foo = 0; foo
\* was written twice (0, then 1) before the deferred jobs ran: the first job
\* called cb(1, 0), and cb reset foo; the second called cb(0, 1).
C18_Witness ==
  /\ wat.made /\ wat.src = "getter" /\ wat.flush = "post" /\ ~wat.immediate
  /\ WatchInLog
  /\ Cardinality(SetsOf("foo")) = 2
  /\ \E i, j \in AllCallbacks :
       /\ i < j /\ Max(SetsOf("foo")) < i
       /\ Callbacks(i, j) = {}
       /\ log[i].v = 1 /\ log[i].w = 0
       /\ log[j].v = 0 /\ log[j].w = 1

\* The effects whose function is executing, outermost first.
Executing ==
  LET fns == SelectSeq(stack, LAMBDA f : f.t = "fn")
  IN  [i \in DOMAIN fns |-> fns[i].e]

\* C19: effectStack holds exactly the effects whose function is executing and
\* activeEffect is its top element, undefined when it is empty; so when
\* nothing is executing both are reset, and a read by host code finds no
\* active effect and leaves the bucket as it was.
C19_NoActiveEffectWhenIdle ==
  /\ effectStack = Executing
  /\ activeEffect = (IF effectStack = << >> THEN 0 ELSE Last(effectStack))
  /\ Idle => (effectStack = << >> /\ activeEffect = 0)
  /\ (log # << >> /\ Last(log).ev = "hread") =>
        (Last(log).e = 0 /\ bucket = Last(log).w)

\* After an effect, a computed value and a watch were registered, and foo was
\* written, host code has read foo: the bucket, not empty, is unchanged.
C19_Witness ==
  /\ Idle /\ log # << >> /\ Last(log).ev = "hread" /\ Last(log).k = "foo"
  /\ comp.made /\ wat.made
  /\ Cardinality(Range(bucket["foo"])) >= 2
  /\ bucket = Last(log).w
  /\ \E i \in DOMAIN log : log[i].ev = "set" /\ log[i].k = "foo"
  /\ \E i \in DOMAIN log : log[i].ev = "run"

\* The keys whose dependency Set holds e.
MemberOf(e) == { k \in DepKeys : e \in Range(bucket[k]) }

\* C20: whenever effect E is not executing, E is in the Set of a key iff E's
\* function read that key in E's most recent execution, and E.deps lists
\* exactly the Sets that hold E.
C20_DepsAreLastReads ==
  \A e \in DOMAIN effects :
    e \notin Range(effectStack) =>
      /\ MemberOf(e) = obs.last[e]
      /\ Range(effects[e].deps) = MemberOf(e)

\* A write of foo ran E = () => { if (!obj.foo) return; obj.bar++; obj.bar };
\* its write of bar ran another effect, which reset foo and so re-ran E; that
\* run read foo only and returned, then the first run read bar: everything has
\* returned and E is in the Set of bar.
C20_Witness ==
  /\ Idle /\ LastOp > 0 /\ log[LastOp].ev = "set" /\ log[LastOp].k = "foo"
  /\ \E e \in DOMAIN effects :
       /\ effects[e].fn = "guarded"
       /\ obs.last[e] = {"foo"}
       /\ MemberOf(e) = {"foo", "bar"}
       /\ LET runs == { j \in DOMAIN log : j > LastOp /\ log[j].ev = "run" /\ log[j].e = e }
              rets == { j \in DOMAIN log : j > LastOp /\ log[j].ev = "ret" /\ log[j].e = e }
          IN  /\ Cardinality(runs) = 2 /\ Cardinality(rets) = 2
              /\ Max(runs) < Min(rets)
              /\ \E b \in DOMAIN log :
                   /\ Min(rets) < b /\ b < Max(rets)
                   /\ log[b].ev = "read" /\ log[b].e = e /\ log[b].k = "bar"

\* -------------------------------------------------------------------- C21
\* The effects that are on effectStack more than once.
Reentered == { e \in DOMAIN effects : Count(effectStack, e) > 1 }

\* C21: no effect is started while it is already on effectStack: effectStack
\* holds each effect at most once, whatever scheduler-less effects reading and
\* writing tracked properties are registered (two effects that each run
\* obj.foo++; an outer effect that read foo and whose nested effect writes
\* foo), so that the runs a write starts are finitely many.
C21_NoEffectTwiceOnStack == Reentered = {}

\* Two effects each running obj.foo++ are registered; the second one's write
\* ran the first, whose write started the second again below its own run.
C21_Witness ==
  /\ \E a, b \in Incs :
       /\ a # b
       /\ Len(effectStack) >= 3
       /\ SubSeq(effectStack, 1, 3) = << b, a, b >>
  /\ \A e \in DOMAIN effects : effects[e].fn = "inc"

\* An effect read foo and registered an effect running obj.foo++, whose write
\* started the outer effect again while both are on effectStack.
C21_NestedWriterReenters ==
  \E o, n \in DOMAIN effects :
    /\ effects[o].fn = "nestInc" /\ effects[n].fn = "inc"
    /\ Len(effectStack) >= 3
    /\ SubSeq(effectStack, 1, 3) = << o, n, o >>

====
